---------------------------- MODULE Spec2Model ----------------------------
(***************************************************************************)
(* ynabvault: list the budgets of a YNAB account, download each budget's   *)
(* JSON and save it under a sanitized, timestamped file name.              *)
(*                                                                         *)
(* Go strings are modelled as sequences of bytes (0..255), runes as code   *)
(* points, a nil error as the empty sequence of error records and a joined *)
(* or wrapped error as the sequence of its parts.                          *)
(***************************************************************************)
EXTENDS Integers, Sequences, FiniteSets, TLC

VARIABLES
    \* ---- main / run --------------------------------------------------
    pc,         \* position of the process: main, mkdir, list, loop, ret, exit
    cfg,        \* Config: Token, BaseURL, Verbose, Logger
    dirOK,      \* whether the output directory exists
    files,      \* output directory: file name -> content
    files0,     \* the directory's content when the process started
    listGet,    \* what the client did for the list request, once made
    budgets,    \* the list returned by fetchBudgets
    idx,        \* number of loop iterations of run already completed
    count,      \* run's local counter
    ret,        \* run's return value (count, err) and the return statement
                \* it came from, once run returned
    exitCode,   \* the process's exit status, -1 while running
    requests,   \* URLs handed to client.Do, in order
    closes,     \* per request of `requests`: whether a response came back, and
                \* the calls of resp.Body.Close()
    saved,      \* per loop iteration: how downloadAndSave went, and the path
                \* of the budget's file
    stderr,     \* lines written to standard error
    \* ---- sanitizeFileName on its own ---------------------------------
    sPc, sIn, sOut, sAgain,
    \* ---- buildFilename on its own ------------------------------------
    fPc, fA, fB, fOutA, fOutB,
    \* ---- httpGet on its own ------------------------------------------
    hPc, hUrl, hDo, hRes,
    \* ---- downloadAndSave on its own ----------------------------------
    dPc, dCfg, dB, dFs, dDirOK, dDo, dRes

runVars  == <<pc, cfg, dirOK, files, files0, listGet, budgets, idx, count, ret,
              exitCode, requests, closes, saved, stderr>>
sanVars  == <<sPc, sIn, sOut, sAgain>>
fileVars == <<fPc, fA, fB, fOutA, fOutB>>
getVars  == <<hPc, hUrl, hDo, hRes>>
dlVars   == <<dPc, dCfg, dB, dFs, dDirOK, dDo, dRes>>
pureVars == <<sanVars, fileVars, getVars, dlVars>>
vars     == <<runVars, pureVars>>

(***************************************************************************)
(* Bounds of the model.                                                    *)
(***************************************************************************)
MaxNameLen == 3     \* bytes of a name given to sanitizeFileName on its own
MaxBudgets == 2     \* budget summaries in a list response
MaxBody    == 3     \* bytes of the longest detail document given to
                    \* downloadAndSave on its own

(***************************************************************************)
(* Bytes, runes and UTF-8 (the Go runtime's range loop and WriteRune).     *)
(***************************************************************************)
RuneError == 65533

\* The first rune of s at byte i and its width, as `for _, r := range s`
\* decodes it: an invalid or truncated encoding is RuneError of width 1.
DecodeRune(s, i) ==
    LET n   == Len(s)
        b0  == s[i]
        cont(k) == i + k <= n /\ s[i + k] >= 128 /\ s[i + k] <= 191
        b1  == s[i + 1]
        b2  == s[i + 2]
        b3  == s[i + 3]
        bad == [r |-> RuneError, w |-> 1]
    IN  IF b0 < 128 THEN [r |-> b0, w |-> 1]
        ELSE IF b0 >= 194 /\ b0 <= 223 THEN
            IF cont(1) THEN [r |-> (b0 % 32) * 64 + (b1 % 64), w |-> 2] ELSE bad
        ELSE IF b0 >= 224 /\ b0 <= 239 THEN
            IF cont(1) /\ cont(2)
               /\ (b0 = 224 => b1 >= 160)
               /\ (b0 = 237 => b1 <= 159)
            THEN [r |-> (b0 % 16) * 4096 + (b1 % 64) * 64 + (b2 % 64), w |-> 3]
            ELSE bad
        ELSE IF b0 >= 240 /\ b0 <= 244 THEN
            IF cont(1) /\ cont(2) /\ cont(3)
               /\ (b0 = 240 => b1 >= 144)
               /\ (b0 = 244 => b1 <= 143)
            THEN [r |-> (b0 % 8) * 262144 + (b1 % 64) * 4096
                        + (b2 % 64) * 64 + (b3 % 64), w |-> 4]
            ELSE bad
        ELSE bad

\* strings.Builder.WriteRune: the UTF-8 encoding of r.
EncodeRune(r) ==
    IF r < 128 THEN <<r>>
    ELSE IF r < 2048 THEN <<192 + (r \div 64), 128 + (r % 64)>>
    ELSE IF r >= 55296 /\ r <= 57343 THEN <<239, 191, 189>>
    ELSE IF r < 65536 THEN
        <<224 + (r \div 4096), 128 + ((r \div 64) % 64), 128 + (r % 64)>>
    ELSE IF r <= 1114111 THEN
        <<240 + (r \div 262144), 128 + ((r \div 4096) % 64),
          128 + ((r \div 64) % 64), 128 + (r % 64)>>
    ELSE <<239, 191, 189>>

\* unicode.IsLetter and unicode.IsDigit, on the blocks the model's names
\* draw their runes from: Basic Latin, Latin-1, Latin Extended, Arabic, and
\* the CJK Unified Ideographs.
LetterRanges ==
    { <<65, 90>>, <<97, 122>>, <<170, 170>>, <<181, 181>>, <<186, 186>>,
      <<192, 214>>, <<216, 246>>, <<248, 705>>, <<1568, 1610>>,
      <<19968, 40869>> }
DigitRanges == { <<48, 57>>, <<1632, 1641>>, <<1776, 1785>> }

InRanges(r, ranges) == \E p \in ranges : p[1] <= r /\ r <= p[2]
IsLetter(r) == InRanges(r, LetterRanges)
IsDigit(r)  == InRanges(r, DigitRanges)

(***************************************************************************)
(* sanitizeFileName                                                        *)
(***************************************************************************)
\* strings.NewReplacer(" ", "_", "/", "_").Replace(name): both old strings
\* are single bytes, so every byte 0x20 and 0x2F becomes 0x5F.
Replace(name) ==
    [i \in 1..Len(name) |-> IF name[i] = 32 \/ name[i] = 47 THEN 95 ELSE name[i]]

\* The switch of the loop body: whether rune r is written to the builder.
Kept(r) ==
    \/ r = 95 \/ r = 45 \/ r = 43 \/ r = 40 \/ r = 41 \/ r = 46
    \/ IsLetter(r) \/ IsDigit(r)

\* A loop that removes while it iterates and so skips the rune after each
\* rune it drops.
RECURSIVE WriteRunesSkipping(_, _, _)
WriteRunesSkipping(clean, i, b) ==
    IF i > Len(clean) THEN b
    ELSE LET d == DecodeRune(clean, i)
         IN  IF Kept(d.r)
             THEN WriteRunesSkipping(clean, i + d.w, b \o EncodeRune(d.r))
             ELSE IF i + d.w > Len(clean) THEN b
             ELSE LET e == DecodeRune(clean, i + d.w)
                  IN  WriteRunesSkipping(clean, i + d.w + e.w,
                                         b \o SubSeq(clean, i + d.w, i + d.w + e.w - 1))

\* A loop that filters the name instead of the replaced string.
RECURSIVE WriteRunesUnreplaced(_, _, _)
WriteRunesUnreplaced(clean, i, b) ==
    IF i > Len(clean) THEN b
    ELSE LET d == DecodeRune(clean, i)
         IN  WriteRunesUnreplaced(clean, i + d.w,
                 IF Kept(d.r) \/ d.r = 47 THEN b \o EncodeRune(d.r) ELSE b)

\* for _, r := range clean { switch ... b.WriteRune(r) }; b.String()
RECURSIVE WriteRunes(_, _, _)
WriteRunes(clean, i, b) ==
    IF i > Len(clean) THEN b
    ELSE LET d == DecodeRune(clean, i)
         IN  WriteRunes(clean, i + d.w,
                        IF Kept(d.r) THEN b \o EncodeRune(d.r) ELSE b)

sanitizeSkipping(name) == WriteRunesSkipping(Replace(name), 1, <<>>)
sanitizeSlashKept(name) == WriteRunesUnreplaced(name, 1, <<>>)
sanitizeAsciiOnly(name) ==
    SelectSeq(Replace(name),
              LAMBDA c : c < 128 /\ Kept(c))

sanitizeFileName(name) == WriteRunes(Replace(name), 1, <<>>)

(***************************************************************************)
(* time.Time and buildFilename                                             *)
(*                                                                         *)
(* A Time is an instant, kept as the day since 1970-01-01 (UTC) and the    *)
(* second of that day, its nanoseconds, and the offset in seconds of the   *)
(* zone it is presented in.                                                *)
(***************************************************************************)
\* Time.UTC(): the same instant, presented in UTC.
UTC(t) == [t EXCEPT !.off = 0]

\* Time.Format(layout) starts from the wall clock of t's zone: the day and
\* second of day of the instant shifted by the offset.
Wall(t) ==
    LET total == t.sod + t.off
    IN  [day |-> t.day + (total \div 86400), sod |-> total % 86400]

\* The civil date of a day number (the standard library's absolute-days to
\* date conversion, proleptic Gregorian calendar).
Date(day) ==
    LET z   == day + 719468
        era == z \div 146097
        doe == z - era * 146097
        yoe == (doe - (doe \div 1460) + (doe \div 36524) - (doe \div 146096)) \div 365
        doy == doe - (365 * yoe + (yoe \div 4) - (yoe \div 100))
        mp  == (5 * doy + 2) \div 153
        d   == doy - ((153 * mp + 2) \div 5) + 1
        m   == IF mp < 10 THEN mp + 3 ELSE mp - 9
        y   == yoe + era * 400 + (IF m <= 2 THEN 1 ELSE 0)
    IN  [year |-> y, month |-> m, day |-> d]

\* The decimal digits of u >= 0, at least `width` of them (zero padded).
RECURSIVE Digits(_, _)
Digits(u, width) ==
    IF u < 10 /\ width <= 1 THEN <<48 + u>>
    ELSE Append(Digits(u \div 10, width - 1), 48 + (u % 10))

\* appendInt(b, x, width) of package time.
AppendInt(x, width) ==
    IF x < 0 THEN <<45>> \o Digits(0 - x, width) ELSE Digits(x, width)

\* Format with layout "20060102T150405Z": stdLongYear, stdZeroMonth,
\* stdZeroDay, the literal T, stdHour, stdZeroMinute, stdZeroSecond and the
\* literal Z (a Z that no "07" follows is no zone directive).
Format(t) ==
    LET w == Wall(t)
        d == Date(w.day)
    IN  AppendInt(d.year, 4) \o AppendInt(d.month, 2) \o AppendInt(d.day, 2)
        \o <<84>>
        \o AppendInt(w.sod \div 3600, 2) \o AppendInt((w.sod \div 60) % 60, 2)
        \o AppendInt(w.sod % 60, 2)
        \o <<90>>

\* A buildFilename that formats the time in the zone it was decoded in.
buildFilenameLocal(b) ==
    sanitizeFileName(b.Name) \o <<95>> \o b.ID \o <<95>>
        \o Format(b.LastModifiedOn) \o <<46, 106, 115, 111, 110>>

\* fmt.Sprintf("%s_%s_%s.json", safe, b.ID, ts)
buildFilename(b) ==
    LET safe == sanitizeFileName(b.Name)
        ts   == Format(UTC(b.LastModifiedOn))
    IN  safe \o <<95>> \o b.ID \o <<95>> \o ts \o <<46, 106, 115, 111, 110>>

(***************************************************************************)
(* filepath.Join(cfg.OutputDir, filename) on a Unix file system            *)
(***************************************************************************)
\* The components of s between separators (byte 47), from byte i on.
RECURSIVE Split(_, _, _, _)
Split(s, i, cur, acc) ==
    IF i > Len(s) THEN Append(acc, cur)
    ELSE IF s[i] = 47 THEN Split(s, i + 1, <<>>, Append(acc, cur))
    ELSE Split(s, i + 1, Append(cur, s[i]), acc)

\* filepath.Clean's walk over the components: empty and "." components are
\* dropped, ".." removes the component before it (and is dropped at the
\* root, kept at the start of a relative path).
RECURSIVE CleanParts(_, _, _, _)
CleanParts(parts, i, rooted, out) ==
    IF i > Len(parts) THEN out
    ELSE LET c == parts[i]
         IN  IF c = <<>> \/ c = <<46>> THEN CleanParts(parts, i + 1, rooted, out)
             ELSE IF c = <<46, 46>> THEN
                 IF Len(out) > 0 /\ out[Len(out)] # <<46, 46>>
                 THEN CleanParts(parts, i + 1, rooted, SubSeq(out, 1, Len(out) - 1))
                 ELSE IF rooted THEN CleanParts(parts, i + 1, rooted, out)
                 ELSE CleanParts(parts, i + 1, rooted, Append(out, c))
             ELSE CleanParts(parts, i + 1, rooted, Append(out, c))

\* The cleaned path as its sequence of components (relative paths only: the
\* model's output directory is relative).
PathParts(path) == CleanParts(Split(path, 1, <<>>, <<>>), 1, FALSE, <<>>)

RECURSIVE JoinParts(_, _)
JoinParts(parts, i) ==
    IF i > Len(parts) THEN <<>>
    ELSE IF i = Len(parts) THEN parts[i]
    ELSE parts[i] \o <<47>> \o JoinParts(parts, i + 1)

\* filepath.Join(dir, name)
Join(dir, name) ==
    LET raw == IF dir = <<>> THEN name
               ELSE IF name = <<>> THEN dir
               ELSE dir \o <<47>> \o name
        parts == PathParts(raw)
    IN  IF raw = <<>> THEN <<>>
        ELSE IF parts = <<>> THEN <<46>>
        ELSE JoinParts(parts, 1)

\* The directory a cleaned relative path lies in ("." for a bare name).
Dir(path) ==
    LET parts == PathParts(path)
    IN  IF Len(parts) <= 1 THEN <<46>>
        ELSE JoinParts(SubSeq(parts, 1, Len(parts) - 1), 1)

(***************************************************************************)
(* Errors, response bodies and the values the environment supplies         *)
(***************************************************************************)
StatusOK == 200

Err(kind, code) == [kind |-> kind, code |-> code]
NilErr == <<>>

\* errors.Join(a, b): nil when both are nil, else the non-nil ones together.
JoinErr(a, b) == a \o b

\* fmt.Errorf("<stage>: %w", err)
Wrap(stage, err) == <<Err(stage, 0)>> \o err

\* Budget summaries a list response of the model can hold.
\*   bX: {ID "x", Name "X", 2025-01-01T00:00:00Z}
\*   bA: {ID "1", Name "A", 2025-05-14T10:00:00Z}
\*   bZ: {ID "/../../z", Name "X", 2025-01-01T00:00:00Z}
\*   bC: {ID "\n", Name "A", 2025-01-01T00:00:00Z}
bX == [ID |-> <<120>>, Name |-> <<88>>,
       LastModifiedOn |-> [day |-> 20089, sod |-> 0, nsec |-> 0, off |-> 0]]
bA == [ID |-> <<49>>, Name |-> <<65>>,
       LastModifiedOn |-> [day |-> 20222, sod |-> 36000, nsec |-> 0, off |-> 0]]
bZ == [ID |-> <<47, 46, 46, 47, 46, 46, 47, 122>>, Name |-> <<88>>,
       LastModifiedOn |-> [day |-> 20089, sod |-> 0, nsec |-> 0, off |-> 0]]
bC == [ID |-> <<10>>, Name |-> <<65>>,
       LastModifiedOn |-> [day |-> 20089, sod |-> 0, nsec |-> 0, off |-> 0]]
BudgetSet == {bX, bA, bZ, bC}

BudgetLists == UNION { [1..n -> BudgetSet] : n \in 0..MaxBudgets }

\* A response body: what its JSON is (the budgets envelope, a JSON object
\* of another shape, or text that is no JSON value), the summaries of an
\* envelope, and its bytes (spelled out for detail documents only).
Body(kind, list, bytes) == [kind |-> kind, budgets |-> list, bytes |-> bytes]
NoBody == Body("none", <<>>, <<>>)
ListBodies ==
    { Body("envelope", l, <<>>) : l \in BudgetLists }
        \cup { Body("object", <<>>, <<>>), Body("malformed", <<>>, <<>>) }
DetailBodies == { Body("object", <<>>, <<123, 125>>), Body("object", <<>>, <<91, 93>>) }

Statuses == {200, 401, 500}

\* What client.Do and the response body do for one request: a transport
\* error, or a response with a status and a body whose Read fails after
\* readAt bytes (-1: never; else after half of them) and whose Close fails
\* or not.
Outcomes(bodies) ==
    { [transport |-> TRUE, status |-> 0, body |-> NoBody, readAt |-> -1,
       closeErr |-> FALSE] }
    \cup UNION { { [transport |-> FALSE, status |-> st, body |-> bd, readAt |-> k,
                    closeErr |-> c] :
                   st \in Statuses, c \in BOOLEAN,
                   k \in {-1, Len(bd.bytes) \div 2} } :
                 bd \in bodies }

NoOutcome == [transport |-> TRUE, status |-> 0, body |-> NoBody, readAt |-> -1,
              closeErr |-> FALSE]

\* data []byte: nil, or the bytes read.
NilData == [isNil |-> TRUE, body |-> NoBody]
Data(body) == [isNil |-> FALSE, body |-> body]

(***************************************************************************)
(* httpGet                                                                 *)
(***************************************************************************)
\* http.NewRequest fails on a URL that url.Parse rejects; of its rules the
\* model keeps the control-byte rule (stringContainsCTLByte).
InvalidURL(url) == \E i \in 1..Len(url) : url[i] < 32 \/ url[i] = 127

\* io.ReadAll(resp.Body): the bytes read and the Read error, if any.
ReadAll(o) ==
    IF o.readAt < 0 \/ o.readAt > Len(o.body.bytes)
    THEN [data |-> Data(o.body), err |-> NilErr]
    ELSE [data |-> Data(Body("malformed", <<>>, SubSeq(o.body.bytes, 1, o.readAt))),
          err |-> <<Err("read", 0)>>]

\* resp.Body.Close()
Close(o) == IF o.closeErr THEN <<Err("close", 0)>> ELSE NilErr

\* An httpGet whose deferred function closes the body and drops Close's
\* error.
httpGetCloseDropped(url, o) ==
    IF InvalidURL(url)
    THEN [data |-> NilData, err |-> <<Err("new request", 0)>>, sent |-> FALSE, closed |-> 0]
    ELSE IF o.transport
    THEN [data |-> NilData, err |-> <<Err("transport", 0)>>, sent |-> TRUE, closed |-> 0]
    ELSE LET r == IF o.status # StatusOK
                  THEN [data |-> NilData, err |-> <<Err("bad status", o.status)>>]
                  ELSE ReadAll(o)
         IN  [data |-> r.data, err |-> r.err, sent |-> TRUE, closed |-> 1]

\* An httpGet that checks the status after reading the body, so that the
\* bytes of an error page are returned with the error.
httpGetReadFirst(url, o) ==
    IF InvalidURL(url)
    THEN [data |-> NilData, err |-> <<Err("new request", 0)>>, sent |-> FALSE, closed |-> 0]
    ELSE IF o.transport
    THEN [data |-> NilData, err |-> <<Err("transport", 0)>>, sent |-> TRUE, closed |-> 0]
    ELSE LET r == ReadAll(o)
             e == IF o.status # StatusOK THEN <<Err("bad status", o.status)>> ELSE r.err
         IN  [data |-> r.data, err |-> JoinErr(e, Close(o)), sent |-> TRUE, closed |-> 1]

\* An httpGet that returns on a bad status before the body's Close is
\* deferred.
httpGetLeak(url, o) ==
    IF InvalidURL(url)
    THEN [data |-> NilData, err |-> <<Err("new request", 0)>>, sent |-> FALSE, closed |-> 0]
    ELSE IF o.transport
    THEN [data |-> NilData, err |-> <<Err("transport", 0)>>, sent |-> TRUE, closed |-> 0]
    ELSE IF o.status # StatusOK
    THEN [data |-> NilData, err |-> <<Err("bad status", o.status)>>, sent |-> TRUE, closed |-> 0]
    ELSE LET r == ReadAll(o)
         IN  [data |-> r.data, err |-> JoinErr(r.err, Close(o)), sent |-> TRUE, closed |-> 1]

\* httpGet(client, url, token): the data and error it returns, whether the
\* request reached client.Do, and how often the body was closed.
httpGet(url, o) ==
    IF InvalidURL(url)
    THEN [data |-> NilData, err |-> <<Err("new request", 0)>>, sent |-> FALSE, closed |-> 0]
    ELSE IF o.transport
    THEN [data |-> NilData, err |-> <<Err("transport", 0)>>, sent |-> TRUE, closed |-> 0]
    ELSE LET r == IF o.status # StatusOK
                  THEN [data |-> NilData, err |-> <<Err("bad status", o.status)>>]
                  ELSE ReadAll(o)
         IN  [data |-> r.data, err |-> JoinErr(r.err, Close(o)),
              sent |-> TRUE, closed |-> 1]

\* json.Unmarshal(data, &wrapper): an error for text that is no JSON value
\* or whose fields have the wrong type; an object without data.budgets
\* decodes to no budgets.
decodeBudgets(data) ==
    IF data.body.kind = "envelope" THEN [budgets |-> data.body.budgets, err |-> NilErr]
    ELSE IF data.body.kind = "object" THEN [budgets |-> <<>>, err |-> NilErr]
    ELSE [budgets |-> <<>>, err |-> <<Err("decode", 0)>>]

\* A fetchBudgets that drops decodeBudgets' error and returns what was
\* decoded.
fetchBudgetsLenient(c, o) ==
    LET g == httpGet(c.BaseURL, o)
        d == decodeBudgets(g.data)
    IN  IF g.err # NilErr THEN [budgets |-> <<>>, err |-> g.err, get |-> g, fetched |-> FALSE]
        ELSE [budgets |-> d.budgets, err |-> NilErr, get |-> g, fetched |-> TRUE]

\* fetchBudgets(cfg)
fetchBudgets(c, o) ==
    LET g == httpGet(c.BaseURL, o)
        d == decodeBudgets(g.data)
    IN  IF g.err # NilErr THEN [budgets |-> <<>>, err |-> g.err, get |-> g, fetched |-> FALSE]
        ELSE IF d.err # NilErr THEN [budgets |-> <<>>, err |-> d.err, get |-> g, fetched |-> FALSE]
        ELSE [budgets |-> d.budgets, err |-> NilErr, get |-> g, fetched |-> TRUE]

(***************************************************************************)
(* writeFile and downloadAndSave                                           *)
(***************************************************************************)
EmptyFiles == [p \in {} |-> <<>>]
PutFile(fs, path, bytes) ==
    [p \in (DOMAIN fs) \cup {path} |-> IF p = path THEN bytes ELSE fs[p]]

\* The directories that exist: the working directory and, once created,
\* the output directory.
Dirs(c, made) == IF made THEN {<<46>>, c.OutputDir} ELSE {<<46>>}

\* What os.WriteFile can do with `bytes` at `path`: fail to open the file
\* (nothing changes), create or truncate it and write all the bytes, or
\* create or truncate it and fail, either before a byte is written or
\* when the written file is closed.
WriteOutcomes(fs, dirs, path, bytes) ==
    { [res |-> "open", fs |-> fs, err |-> <<Err("open", 0)>>] }
    \cup (IF Dir(path) \in dirs
          THEN { [res |-> "ok", fs |-> PutFile(fs, path, bytes), err |-> NilErr] }
               \cup { [res |-> "write", fs |-> PutFile(fs, path, SubSeq(bytes, 1, k)),
                       err |-> <<Err("write", 0)>>] : k \in {0, Len(bytes)} }
          ELSE {})

NoWrite(fs) == [res |-> "none", fs |-> fs, err |-> NilErr]

\* A downloadAndSave that writes what httpGet returned before it looks at
\* httpGet's error.
downloadAndSaveEager(c, fs, dirs, b, o) ==
    LET url  == c.BaseURL \o <<47>> \o b.ID
        g    == httpGet(url, o)
        path == Join(c.OutputDir, buildFilename(b))
    IN  { [url |-> url, get |-> g, wrote |-> w, file |-> path,
           path |-> IF g.err = NilErr /\ w.err = NilErr THEN path ELSE <<>>,
           err |-> IF g.err # NilErr THEN Wrap("download budget", g.err)
                   ELSE IF w.err # NilErr THEN Wrap("write file", w.err)
                   ELSE NilErr] :
          w \in WriteOutcomes(fs, dirs, path, g.data.body.bytes) }

\* A downloadAndSave that reports a failed download as a failed write.
downloadAndSaveStage(c, fs, dirs, b, o) ==
    LET url  == c.BaseURL \o <<47>> \o b.ID
        g    == httpGet(url, o)
        path == Join(c.OutputDir, buildFilename(b))
    IN  IF g.err # NilErr
        THEN { [url |-> url, get |-> g, wrote |-> NoWrite(fs), file |-> path,
                path |-> <<>>, err |-> Wrap("write file", g.err)] }
        ELSE { [url |-> url, get |-> g, wrote |-> w, file |-> path,
                path |-> IF w.err = NilErr THEN path ELSE <<>>,
                err |-> IF w.err # NilErr THEN Wrap("write file", w.err) ELSE NilErr] :
               w \in WriteOutcomes(fs, dirs, path, g.data.body.bytes) }

\* A downloadAndSave that builds the URL without the "/" before the ID.
downloadAndSaveNoSlash(c, fs, dirs, b, o) ==
    LET url  == c.BaseURL \o b.ID
        g    == httpGet(url, o)
        path == Join(c.OutputDir, buildFilename(b))
    IN  IF g.err # NilErr
        THEN { [url |-> url, get |-> g, wrote |-> NoWrite(fs), file |-> path,
                path |-> <<>>, err |-> Wrap("download budget", g.err)] }
        ELSE { [url |-> url, get |-> g, wrote |-> w, file |-> path,
                path |-> IF w.err = NilErr THEN path ELSE <<>>,
                err |-> IF w.err # NilErr THEN Wrap("write file", w.err) ELSE NilErr] :
               w \in WriteOutcomes(fs, dirs, path, g.data.body.bytes) }

\* downloadAndSave(cfg, b) with the client behaving as o, on file system fs:
\* the results it can have, one per outcome of the write. Each holds the
\* URL requested, httpGet's result, the write made (res "none": writeFile
\* was not called) with the file system after it, the file's path, and the
\* returned path and error.
downloadAndSave(c, fs, dirs, b, o) ==
    LET url  == c.BaseURL \o <<47>> \o b.ID
        g    == httpGet(url, o)
        path == Join(c.OutputDir, buildFilename(b))
    IN  IF g.err # NilErr
        THEN { [url |-> url, get |-> g, wrote |-> NoWrite(fs), file |-> path,
                path |-> <<>>, err |-> Wrap("download budget", g.err)] }
        ELSE { [url |-> url, get |-> g, wrote |-> w, file |-> path,
                path |-> IF w.err = NilErr THEN path ELSE <<>>,
                err |-> IF w.err # NilErr THEN Wrap("write file", w.err) ELSE NilErr] :
               w \in WriteOutcomes(fs, dirs, path, g.data.body.bytes) }

(***************************************************************************)
(* main and run                                                            *)
(***************************************************************************)
\* A logf that ignores the logger's output and writes to standard error.
logfAlways(c, out, line) == Append(out, line)

\* cfg.logf(...): the line reaches standard error when a logger is set and
\* its output was not set to io.Discard.
logf(c, out, line) == IF c.Logger = "stderr" THEN Append(out, line) ELSE out

NoRet == [done |-> FALSE, count |-> 0, err |-> NilErr, at |-> ""]
Return(n, err, at) == [done |-> TRUE, count |-> n, err |-> err, at |-> at]

\* The list request's outcome as run's state keeps it: the client's outcome
\* without the body's content.
NoList == [done |-> FALSE, sent |-> FALSE, transport |-> FALSE, status |-> 0,
           kind |-> "none", readErr |-> FALSE, closeErr |-> FALSE]
ListOutcome(g, o) ==
    [done |-> TRUE, sent |-> g.sent, transport |-> g.sent /\ o.transport,
     status |-> IF g.sent THEN o.status ELSE 0,
     kind |-> IF g.sent THEN o.body.kind ELSE "none",
     readErr |-> g.sent /\ ~o.transport /\ o.status = StatusOK /\ o.readAt >= 0,
     closeErr |-> g.sent /\ o.closeErr]

\* A counter that counts the budgets saved.
NextCountSaved(n, err) == IF err = NilErr THEN n + 1 ELSE n

\* count++ at the end of the loop body, whatever downloadAndSave returned.
NextCount(n, err) == n + 1

NoResult == [data |-> NilData, err |-> NilErr, sent |-> FALSE, closed |-> 0]

\* A Config as the tests build it, and downloadAndSave's result before it
\* was called.
RestCfg == [Token |-> <<116>>, BaseURL |-> <<117>>, OutputDir |-> <<111>>,
            Verbose |-> FALSE, Logger |-> "nil"]
NoSave == [url |-> <<>>, get |-> NoResult, wrote |-> NoWrite(EmptyFiles),
           file |-> <<>>, path |-> <<>>, err |-> NilErr]

\* The variables of the function-level specifications, at rest.
SanOff  == sPc = "off" /\ sIn = <<>> /\ sOut = <<>> /\ sAgain = <<>>
FileOff == fPc = "off" /\ fA = bX /\ fB = bX /\ fOutA = <<>> /\ fOutB = <<>>
GetOff  == hPc = "off" /\ hUrl = <<>> /\ hDo = NoOutcome /\ hRes = NoResult
DlOff   == /\ dPc = "off" /\ dB = bX /\ dFs = EmptyFiles /\ dDirOK = FALSE
           /\ dCfg = RestCfg /\ dDo = NoOutcome /\ dRes = NoSave
PureOff == SanOff /\ FileOff /\ GetOff /\ DlOff

\* The file a run before this one saved for bX.
OldFiles == PutFile(EmptyFiles, Join(<<111>>, buildFilename(bX)), <<111, 108, 100>>)

Init ==
    /\ pc = "main"
    /\ cfg \in { [Token |-> tk, BaseURL |-> u, OutputDir |-> <<111>>,
                  Verbose |-> v, Logger |-> "nil"] :
                 tk \in {<<>>, <<116>>}, u \in {<<117>>, <<117, 10>>},
                 v \in BOOLEAN }
    /\ \E old \in BOOLEAN :
          /\ dirOK = old
          /\ files0 = IF old THEN OldFiles ELSE EmptyFiles
    /\ files = files0
    /\ listGet = NoList
    /\ budgets = <<>>
    /\ idx = 0
    /\ count = 0
    /\ ret = NoRet
    /\ exitCode = -1
    /\ requests = <<>>
    /\ closes = <<>>
    /\ saved = <<>>
    /\ stderr = <<>>
    /\ PureOff

\* main, up to the call of run: the token is resolved (flag, then
\* environment), and the logger is made, discarding unless verbose.
MainStart ==
    /\ pc = "main"
    /\ IF cfg.Token = <<>>
       THEN /\ stderr' = Append(stderr, "Error: bearer token must be provided")
            /\ exitCode' = 1
            /\ pc' = "exit"
            /\ cfg' = cfg
       ELSE /\ cfg' = [cfg EXCEPT !.Logger = IF cfg.Verbose THEN "stderr" ELSE "discard"]
            /\ pc' = "mkdir"
            /\ UNCHANGED <<stderr, exitCode>>
    /\ UNCHANGED <<dirOK, files, files0, listGet, budgets, idx, count, ret, requests,
                   closes, saved, pureVars>>

\* run: os.MkdirAll(cfg.OutputDir, 0755). It succeeds on a directory that
\* exists; creating one can fail.
RunMkdir ==
    /\ pc = "mkdir"
    /\ \E ok \in (IF dirOK THEN {TRUE} ELSE BOOLEAN) :
          LET out == logf(cfg, stderr, "Creating output directory")
          IN  /\ stderr' = out
              /\ IF ok
                 THEN /\ dirOK' = TRUE
                      /\ pc' = "list"
                      /\ ret' = ret
                 ELSE /\ dirOK' = dirOK
                      /\ pc' = "ret"
                      /\ ret' = Return(0, Wrap("failed to create output dir",
                                             <<Err("mkdir", 0)>>), "mkdir")
    /\ UNCHANGED <<cfg, files, files0, listGet, budgets, idx, count, exitCode, requests,
                   closes, saved, pureVars>>

\* run: the list phase, fetchBudgets and the check of its error.
RunList ==
    /\ pc = "list"
    /\ \E o \in Outcomes(ListBodies) :
          LET f    == fetchBudgets(cfg, o)
              out1 == logf(cfg, stderr, "Fetching budgets list")
          IN  /\ listGet' = ListOutcome(f.get, o)
              /\ requests' = IF f.get.sent THEN Append(requests, cfg.BaseURL) ELSE requests
              /\ closes' = IF f.get.sent
                            THEN Append(closes, [resp |-> ~o.transport, n |-> f.get.closed])
                            ELSE closes
              /\ IF f.err # NilErr
                 THEN /\ ret' = Return(0, Wrap("fetch budgets", f.err), "list")
                      /\ pc' = "ret"
                      /\ stderr' = out1
                      /\ UNCHANGED <<budgets, count>>
                 ELSE /\ budgets' = f.budgets
                      /\ count' = 0
                      /\ pc' = "loop"
                      /\ stderr' = logf(cfg, out1, "Fetched budgets")
                      /\ ret' = ret
    /\ UNCHANGED <<cfg, dirOK, files, files0, idx, exitCode, saved, pureVars>>

\* run: one iteration of the loop over the budgets, count++ included.
RunBudget ==
    /\ pc = "loop"
    /\ idx < Len(budgets)
    /\ LET b == budgets[idx + 1]
       IN  \E o \in Outcomes(DetailBodies) :
           \E r \in downloadAndSave(cfg, files, Dirs(cfg, dirOK), b, o) :
              LET out1 == logf(cfg, stderr, "Processing budget")
              IN  /\ requests' = IF r.get.sent THEN Append(requests, r.url) ELSE requests
                  /\ closes' = IF r.get.sent
                                THEN Append(closes, [resp |-> ~o.transport, n |-> r.get.closed])
                                ELSE closes
                  /\ files' = r.wrote.fs
                  /\ saved' = Append(saved, [stage |-> IF r.err = NilErr THEN "" ELSE r.err[1].kind,
                                             ok200 |-> r.get.sent /\ o.status = StatusOK,
                                             wrote |-> r.wrote.res,
                                             file |-> r.file])
                  /\ stderr' = IF r.err # NilErr THEN logf(cfg, out1, "Warning")
                               ELSE logf(cfg, out1, "Saved to")
                  /\ count' = NextCount(count, r.err)
                  /\ idx' = idx + 1
    /\ UNCHANGED <<pc, cfg, dirOK, files0, listGet, budgets, ret, exitCode, pureVars>>

\* run: the loop is over, return count, nil.
RunReturn ==
    /\ pc = "loop"
    /\ idx = Len(budgets)
    /\ ret' = Return(count, NilErr, "loop")
    /\ pc' = "ret"
    /\ UNCHANGED <<cfg, dirOK, files, files0, listGet, budgets, idx, count, exitCode,
                   requests, closes, saved, stderr, pureVars>>

\* main, after run returned: the error is printed and the exit status is 1,
\* or the count is printed when verbose.
MainExit ==
    /\ pc = "ret"
    /\ IF ret.err # NilErr
       THEN /\ stderr' = Append(stderr, "Error:")
            /\ exitCode' = 1
       ELSE /\ stderr' = IF cfg.Verbose THEN Append(stderr, "Processed budgets") ELSE stderr
            /\ exitCode' = 0
    /\ pc' = "exit"
    /\ UNCHANGED <<cfg, dirOK, files, files0, listGet, budgets, idx, count, ret, requests,
                   closes, saved, pureVars>>

Next == MainStart \/ RunMkdir \/ RunList \/ RunBudget \/ RunReturn \/ MainExit

Spec == Init /\ [][Next]_vars

(***************************************************************************)
(* The run's variables at rest, for the specifications of single functions *)
(***************************************************************************)
RunOff ==
    /\ pc = "off"
    /\ cfg = RestCfg
    /\ dirOK = FALSE /\ files = EmptyFiles /\ files0 = EmptyFiles
    /\ listGet = NoList /\ budgets = <<>> /\ idx = 0 /\ count = 0
    /\ ret = NoRet /\ exitCode = -1 /\ requests = <<>> /\ closes = <<>>
    /\ saved = <<>> /\ stderr = <<>>

(***************************************************************************)
(* sanitizeFileName applied to a name, and to its own result               *)
(***************************************************************************)
\* The bytes names are made of: space / _ - + ( ) . A z 5 :, the two bytes
\* of U+00E9 (a letter), the two bytes of U+0663 (a digit), and 0xFF.
NameBytes == {32, 47, 95, 45, 43, 40, 41, 46, 65, 122, 53, 58,
              195, 169, 217, 163, 255}

\* The names of TestSanitizeFileName, a name with a three-byte letter
\* (U+4E2D) and one with a four-byte symbol (U+1F600).
TestNames ==
    { <<77, 121, 32, 66, 117, 100, 103, 101, 116, 47, 78, 97, 109, 101>>,
      <<66, 117, 100, 103, 101, 116, 58, 83, 112, 101, 99, 105, 97, 108, 42,
        67, 104, 97, 114, 115, 63>>,
      <<32, 32, 76, 101, 97, 100, 105, 110, 103, 32, 97, 110, 100, 32, 84, 114,
        97, 105, 108, 105, 110, 103, 32, 32>>,
      <<67, 111, 109, 112, 108, 101, 120, 45, 78, 97, 109, 101, 95, 49, 50, 51,
        43, 40, 41>>,
      <<228, 184, 173, 47, 65>>,
      <<240, 159, 152, 128, 32, 65>> }

Names == TestNames \cup UNION { [1..n -> NameBytes] : n \in 0..MaxNameLen }

InitSanitize ==
    /\ sPc = "in"
    /\ sIn \in Names
    /\ sOut = <<>>
    /\ sAgain = <<>>
    /\ RunOff /\ FileOff /\ GetOff /\ DlOff

\* sanitizeFileName(name)
Sanitize ==
    /\ sPc = "in"
    /\ sOut' = sanitizeFileName(sIn)
    /\ sPc' = "once"
    /\ UNCHANGED <<sIn, sAgain, runVars, fileVars, getVars, dlVars>>

\* sanitizeFileName applied to the name it returned.
SanitizeAgain ==
    /\ sPc = "once"
    /\ sAgain' = sanitizeFileName(sOut)
    /\ sPc' = "twice"
    /\ UNCHANGED <<sIn, sOut, runVars, fileVars, getVars, dlVars>>

NextSanitize == Sanitize \/ SanitizeAgain

SpecSanitize == InitSanitize /\ [][NextSanitize]_vars

(***************************************************************************)
(* buildFilename applied to two summaries of one budget                    *)
(***************************************************************************)
\* Instants: 2025-05-14T15:30:45Z (TestBuildFilename), 2025-01-01T00:00:00Z,
\* 2024-02-29T23:59:59Z, 1969-12-31T23:59:59Z, 2000-03-01T00:00:00Z and
\* 2100-02-28T23:59:59Z, each at two nanoseconds and in three zones.
Instants == { <<20222, 55845>>, <<20089, 0>>, <<19782, 86399>>, <<-1, 86399>>,
              <<11017, 0>>, <<47540, 86399>> }
Times == { [day |-> i[1], sod |-> i[2], nsec |-> ns, off |-> z] :
           i \in Instants, ns \in {0, 999999999}, z \in {0, 7200, -18000} }

\* Names "My Budget", U+00E9 space "b", and the empty name; IDs "abc123"
\* and "x y".
FileBudgets ==
    { [ID |-> id, Name |-> nm, LastModifiedOn |-> t] :
      id \in { <<97, 98, 99, 49, 50, 51>>, <<120, 32, 121>> },
      nm \in { <<77, 121, 32, 66, 117, 100, 103, 101, 116>>, <<195, 169, 32, 98>>, <<>> },
      t \in Times }

InitFilename ==
    /\ fPc = "in"
    /\ fA \in FileBudgets
    /\ fB \in { [fA EXCEPT !.LastModifiedOn = t] : t \in Times }
    /\ fOutA = <<>> /\ fOutB = <<>>
    /\ RunOff /\ SanOff /\ GetOff /\ DlOff

\* buildFilename(b), for both summaries.
BuildFilename ==
    /\ fPc = "in"
    /\ fOutA' = buildFilename(fA)
    /\ fOutB' = buildFilename(fB)
    /\ fPc' = "done"
    /\ UNCHANGED <<fA, fB, runVars, sanVars, getVars, dlVars>>

NextFilename == BuildFilename

SpecFilename == InitFilename /\ [][NextFilename]_vars

(***************************************************************************)
(* httpGet applied to a URL, with the client behaving in every way         *)
(***************************************************************************)
\* URLs "u", "u/x" and "u/\n".
GetURLs == { <<117>>, <<117, 47, 120>>, <<117, 47, 10>> }

InitHttpGet ==
    /\ hPc = "in"
    /\ hUrl \in GetURLs
    /\ hDo \in Outcomes(DetailBodies \cup { Body("object", <<>>, <<>>),
                                            Body("malformed", <<>>, <<123>>) })
    /\ hRes = NoResult
    /\ RunOff /\ SanOff /\ FileOff /\ DlOff

\* httpGet(client, url, token)
HttpGet ==
    /\ hPc = "in"
    /\ hRes' = httpGet(hUrl, hDo)
    /\ hPc' = "done"
    /\ UNCHANGED <<hUrl, hDo, runVars, sanVars, fileVars, dlVars>>

NextHttpGet == HttpGet

SpecHttpGet == InitHttpGet /\ [][NextHttpGet]_vars

(***************************************************************************)
(* downloadAndSave applied to a budget summary, with the client and the    *)
(* file system behaving in every way                                       *)
(***************************************************************************)
\* The directory before the call: empty, holding the file an earlier run
\* saved for bX, or holding a file of another name.
SaveDirs == { EmptyFiles, OldFiles, PutFile(EmptyFiles, <<111, 47, 107>>, <<107>>) }

\* Detail documents: "{}", "[]", the empty body, and as many "a" as the
\* bound allows.
SaveBodies == DetailBodies
                \cup { Body("malformed", <<>>, [i \in 1..n |-> 97]) : n \in {0, MaxBody} }

InitDownload ==
    /\ dPc = "in"
    /\ dCfg \in { [RestCfg EXCEPT !.BaseURL = u] : u \in {<<117>>, <<117, 10>>} }
    /\ dB \in BudgetSet
    /\ dFs \in SaveDirs
    /\ dDirOK \in BOOLEAN
    /\ dDo \in Outcomes(SaveBodies)
    /\ dRes = NoSave
    /\ RunOff /\ SanOff /\ FileOff /\ GetOff

\* downloadAndSave(cfg, b)
DownloadAndSave ==
    /\ dPc = "in"
    /\ dRes' \in downloadAndSave(dCfg, dFs, Dirs(dCfg, dDirOK), dB, dDo)
    /\ dPc' = "done"
    /\ UNCHANGED <<dCfg, dB, dFs, dDirOK, dDo, runVars, sanVars, fileVars, getVars>>

NextDownload == DownloadAndSave

SpecDownload == InitDownload /\ [][NextDownload]_vars

(***************************************************************************)
(* Properties of run (specification Spec)                                  *)
(***************************************************************************)
\* The file downloadAndSave writes for budget b.
OutFile(b) == Join(cfg.OutputDir, buildFilename(b))

\* The list fetch succeeded, told from what the client did: a response with
\* status 200, read and closed without error, whose body is a JSON object.
ListSucceeded ==
    /\ listGet.done /\ listGet.sent /\ ~listGet.transport
    /\ listGet.status = 200
    /\ ~listGet.readErr /\ ~listGet.closeErr
    /\ listGet.kind \in {"envelope", "object"}

\* C1: once the directory is made and the list is fetched, run counts one
\* per loop iteration whatever downloadAndSave returned, and it returns
\* (n, nil) with n the number of summaries in the list.
C1_CountIsListLength ==
    /\ dirOK /\ ListSucceeded => pc \in {"loop", "ret", "exit"}
    /\ pc = "loop" =>
          /\ ListSucceeded /\ ~ret.done
          /\ count = idx /\ idx = Len(saved) /\ idx <= Len(budgets)
    /\ ret.done /\ ListSucceeded =>
          /\ ret.at = "loop"
          /\ ret.err = NilErr
          /\ ret.count = Len(budgets)
          /\ Len(saved) = Len(budgets)

\* C1 witness: run returned (2, nil) for a list of two budgets, the first of
\* which failed to download and the second to be written.
C1_Witness ==
    /\ ret.done /\ ret.at = "loop" /\ ret.count = 2
    /\ Len(budgets) = 2
    /\ saved[1].stage = "download budget"
    /\ saved[2].stage = "write file"

\* C2 as stated: after run completed, the file of a listed budget exists if
\* and only if that budget's detail fetch returned 200 and its write
\* succeeded.
C2_FileIffFetchedAndWritten ==
    ret.done /\ ret.at = "loop" =>
        \A k \in 1..Len(budgets) :
            saved[k].file \in DOMAIN files
                <=> (saved[k].ok200 /\ saved[k].wrote = "ok")

\* C2, amended: a per-budget failure never aborts the run; every listed
\* budget is attempted; writeFile is called for a budget only if its detail
\* fetch returned 200 and httpGet returned no error; after a write that
\* succeeded the budget's file exists; and no file is created or changed
\* but by such a write, and none is removed.
C2_FailuresStayLocal ==
    /\ pc = "loop" \/ (ret.done /\ ret.at = "loop") => ret.err = NilErr
    /\ ret.done /\ ret.at = "loop" => Len(saved) = Len(budgets)
    /\ \A k \in 1..Len(saved) :
          /\ saved[k].wrote # "none" =>
                saved[k].ok200 /\ saved[k].stage # "download budget"
          /\ saved[k].stage = "download budget" => saved[k].wrote = "none"
          /\ saved[k].wrote = "ok" =>
                saved[k].stage = "" /\ saved[k].file \in DOMAIN files
    /\ \A p \in DOMAIN files :
          (p \notin DOMAIN files0 \/ files[p] # files0[p]) =>
              \E k \in 1..Len(saved) :
                  saved[k].file = p /\ saved[k].wrote \in {"ok", "write"}
    /\ DOMAIN files0 \subseteq DOMAIN files

\* C2 witness: of the two listed budgets x and 1 the first failed to
\* download, the second was saved, and run returned with only the second
\* budget's file in the directory.
C2_Witness ==
    /\ ret.done /\ ret.at = "loop"
    /\ budgets = <<bX, bA>>
    /\ saved[1].stage = "download budget"
    /\ saved[2].wrote = "ok"
    /\ saved[2].file = OutFile(bA)
    /\ DOMAIN files = {OutFile(bA)}

\* What made the list fetch fail, told from what the client did.
ListFailed ==
    /\ listGet.done
    /\ \/ ~listGet.sent
       \/ listGet.transport
       \/ listGet.status # 200
       \/ listGet.readErr
       \/ listGet.closeErr
       \/ listGet.kind = "malformed"

\* C3: when the output directory cannot be created run returns (0, error)
\* and no request was made; when the list fetch fails (transport error,
\* status other than 200, body that does not decode) run returns (0, error)
\* and no detail request was made and no file written.
C3_FatalPhasesAbort ==
    /\ pc \in {"list", "loop"} => dirOK
    /\ pc \in {"ret", "exit"} /\ ~dirOK /\ cfg.Token # <<>> =>
          /\ ret.done /\ ret.at = "mkdir"
          /\ ret.count = 0 /\ ret.err # NilErr
          /\ requests = <<>> /\ ~listGet.done
          /\ files = files0 /\ saved = <<>>
    /\ ListFailed =>
          /\ ret.done /\ ret.at = "list"
          /\ ret.count = 0 /\ ret.err # NilErr
          /\ requests \in {<<>>, <<cfg.BaseURL>>}
          /\ files = files0 /\ saved = <<>>

\* C3 witness: the list response had status 200 and was read and closed,
\* its body did not decode, and run returned (0, error).
C3_Witness ==
    /\ listGet.done /\ listGet.status = 200 /\ listGet.kind = "malformed"
    /\ ~listGet.readErr /\ ~listGet.closeErr
    /\ ret.done /\ ret.count = 0 /\ ret.err # NilErr
    /\ requests = <<cfg.BaseURL>>

\* C6: for every request handed to the client, the response body was closed
\* exactly once if a response came back, and nothing was closed if the
\* client returned a transport error.
C6_BodyClosedOnce ==
    /\ Len(closes) = Len(requests)
    /\ \A i \in 1..Len(closes) :
          closes[i].n = (IF closes[i].resp THEN 1 ELSE 0)

\* C6 witness: the list request and two detail requests were made; the
\* first detail request met a transport error, the second a response with a
\* status other than 200.
C6_Witness ==
    /\ Len(requests) = 3 /\ Len(saved) = 2
    /\ closes[1].resp /\ closes[1].n = 1
    /\ ~closes[2].resp /\ closes[2].n = 0
    /\ closes[3].resp /\ closes[3].n = 1 /\ ~saved[2].ok200

(***************************************************************************)
(* Properties of httpGet (specification SpecHttpGet)                       *)
(***************************************************************************)
\* The client returned a response to the call.
Responded == ~InvalidURL(hUrl) /\ ~hDo.transport
ReadFailed == hDo.readAt >= 0 /\ hDo.readAt <= Len(hDo.body.bytes)
HasErr(kind) == \E i \in 1..Len(hRes.err) : hRes.err[i].kind = kind

\* C4: for a response with a status other than 200 httpGet returns an error
\* that carries the status code, and nil data, whatever the body holds and
\* whether or not Close fails.
C4_BadStatusNoData ==
    hPc = "done" /\ Responded /\ hDo.status # 200 =>
        /\ hRes.err # NilErr
        /\ \E i \in 1..Len(hRes.err) :
              hRes.err[i].kind = "bad status" /\ hRes.err[i].code = hDo.status
        /\ hRes.data.isNil
        /\ hRes.data = NilData

\* C4 witness: a 500 response with a non-empty body whose Close fails.
C4_Witness ==
    /\ hPc = "done" /\ Responded
    /\ hDo.status = 500 /\ hDo.body.bytes # <<>> /\ hDo.closeErr
    /\ hRes.err # NilErr /\ hRes.data.isNil

\* C5: a failed Close is in the returned error, alone after a successful
\* read and together with the read's failure after a failed one; the error
\* is nil only for status 200 with both read and close succeeding.
C5_CloseErrorSurfaces ==
    hPc = "done" =>
        /\ Responded /\ hDo.closeErr => HasErr("close")
        /\ Responded /\ hDo.status = 200 /\ ~ReadFailed /\ hDo.closeErr =>
              hRes.err = <<Err("close", 0)>>
        /\ Responded /\ hDo.status = 200 /\ ReadFailed /\ hDo.closeErr =>
              HasErr("read") /\ HasErr("close")
        /\ hRes.err = NilErr =>
              Responded /\ hDo.status = 200 /\ ~ReadFailed /\ ~hDo.closeErr

\* C5 witness: status 200, the read fails and the close fails.
C5_Witness ==
    /\ hPc = "done" /\ Responded
    /\ hDo.status = 200 /\ ReadFailed /\ hDo.closeErr
    /\ HasErr("read") /\ HasErr("close")

(***************************************************************************)
(* Properties of sanitizeFileName (specification SpecSanitize)             *)
(***************************************************************************)
\* The characters of [A-Za-z0-9_.+()-], as bytes.
AsciiSafe == (65..90) \cup (97..122) \cup (48..57) \cup {95, 46, 43, 40, 41, 45}
Punctuation == {95, 46, 43, 40, 41, 45}

\* The runes of a string, an invalid byte counting as U+FFFD.
RECURSIVE Runes(_, _)
Runes(str, i) ==
    IF i > Len(str) THEN <<>>
    ELSE LET d == DecodeRune(str, i) IN <<d.r>> \o Runes(str, i + d.w)

IsAscii(str) == \A i \in 1..Len(str) : str[i] < 128
OnlyAsciiSafe(str) == \A i \in 1..Len(str) : str[i] \in AsciiSafe
OnlyLettersDigitsPunctuation(str) ==
    LET rs == Runes(str, 1)
    IN  \A i \in 1..Len(rs) :
            /\ rs[i] # 65533
            /\ rs[i] \in Punctuation \/ IsLetter(rs[i]) \/ IsDigit(rs[i])

\* C7 as stated: the result of sanitizeFileName holds only characters of
\* [A-Za-z0-9_.+()-].
C7_OutputAsciiSafe ==
    /\ sPc \in {"once", "twice"} => OnlyAsciiSafe(sOut)
    /\ sPc = "twice" => OnlyAsciiSafe(sAgain)

\* C7, amended: the result of sanitizeFileName holds only Unicode letters,
\* Unicode digits and the characters _ . + ( ) -, and for an ASCII name it
\* holds only characters of [A-Za-z0-9_.+()-].
C7_OutputLettersDigitsPunctuation ==
    /\ sPc \in {"once", "twice"} =>
          /\ OnlyLettersDigitsPunctuation(sOut)
          /\ IsAscii(sIn) => OnlyAsciiSafe(sOut)
    /\ sPc = "twice" =>
          /\ OnlyLettersDigitsPunctuation(sAgain)
          /\ IsAscii(sOut) => OnlyAsciiSafe(sAgain)

\* C7 witness: the name U+00E9 "/" is sanitized to U+00E9 "_", which is
\* not ASCII.
C7_Witness ==
    /\ sPc = "once"
    /\ sIn = <<195, 169, 47>>
    /\ sOut = <<195, 169, 95>>

\* The rule of the specification, rune by rune: a space or slash becomes an
\* underscore, a letter, digit or one of _ - + ( ) . stays, anything else
\* goes.
RECURSIVE EncodeAll(_, _)
EncodeAll(rs, i) ==
    IF i > Len(rs) THEN <<>> ELSE EncodeRune(rs[i]) \o EncodeAll(rs, i + 1)

ReferenceSanitize(name) ==
    LET rs     == Runes(name, 1)
        mapped == [i \in 1..Len(rs) |-> IF rs[i] \in {32, 47} THEN 95 ELSE rs[i]]
        stay(r) == r \in Punctuation \/ IsLetter(r) \/ IsDigit(r)
    IN  EncodeAll(SelectSeq(mapped, stay), 1)

\* C8: sanitizeFileName returns what the reference rule gives, so a name of
\* allowed characters only comes back unchanged, and the names of
\* TestSanitizeFileName give the results the test expects.
C8_SanitizeIsReferenceRule ==
    sPc \in {"once", "twice"} =>
        /\ sOut = ReferenceSanitize(sIn)
        /\ OnlyLettersDigitsPunctuation(sIn) => sOut = sIn
        /\ Len(Runes(sOut, 1)) <= Len(Runes(sIn, 1))
        /\ sIn = <<77, 121, 32, 66, 117, 100, 103, 101, 116, 47, 78, 97, 109, 101>>
              => sOut = <<77, 121, 95, 66, 117, 100, 103, 101, 116, 95, 78, 97, 109, 101>>
        /\ sIn = <<66, 117, 100, 103, 101, 116, 58, 83, 112, 101, 99, 105, 97, 108,
                   42, 67, 104, 97, 114, 115, 63>>
              => sOut = <<66, 117, 100, 103, 101, 116, 83, 112, 101, 99, 105, 97,
                          108, 67, 104, 97, 114, 115>>
        /\ sIn = <<67, 111, 109, 112, 108, 101, 120, 45, 78, 97, 109, 101, 95, 49,
                   50, 51, 43, 40, 41>>
              => sOut = sIn

\* C8 witness: "  Leading and Trailing  " is sanitized to
\* "__Leading_and_Trailing__".
C8_Witness ==
    /\ sPc = "once"
    /\ sIn = <<32, 32, 76, 101, 97, 100, 105, 110, 103, 32, 97, 110, 100, 32, 84,
               114, 97, 105, 108, 105, 110, 103, 32, 32>>
    /\ sOut = <<95, 95, 76, 101, 97, 100, 105, 110, 103, 95, 97, 110, 100, 95, 84,
                114, 97, 105, 108, 105, 110, 103, 95, 95>>

\* C9: sanitizeFileName applied to its own result returns that result.
C9_SanitizeIdempotent == sPc = "twice" => sAgain = sOut

\* C9 witness: " " U+00E9 was sanitized to "_" U+00E9, and that again to
\* itself.
C9_Witness ==
    /\ sPc = "twice"
    /\ sIn = <<32, 195, 169>>
    /\ sOut = <<95, 195, 169>>
    /\ sAgain = sOut

(***************************************************************************)
(* Properties of buildFilename (specification SpecFilename)                *)
(***************************************************************************)
IsLeap(y) == y % 4 = 0 /\ (y % 100 # 0 \/ y % 400 = 0)
LeapsUpTo(y) == (y \div 4) - (y \div 100) + (y \div 400)
DaysBefore == <<0, 31, 59, 90, 120, 151, 181, 212, 243, 273, 304, 334>>
DaysIn(y, m) ==
    IF m = 2 THEN (IF IsLeap(y) THEN 29 ELSE 28)
    ELSE IF m \in {4, 6, 9, 11} THEN 30 ELSE 31

\* The day number (days since 1970-01-01) of a calendar date, by counting.
DayNumber(y, m, d) ==
    365 * (y - 1970) + LeapsUpTo(y - 1) - LeapsUpTo(1969)
        + DaysBefore[m] + (IF m > 2 /\ IsLeap(y) THEN 1 ELSE 0) + (d - 1)

\* st is YYYYMMDDThhmmssZ and names the UTC second of instant t.
StampIs(st, t) ==
    LET n(i) == st[i] - 48
        y  == 1000 * n(1) + 100 * n(2) + 10 * n(3) + n(4)
        mo == 10 * n(5) + n(6)
        d  == 10 * n(7) + n(8)
        h  == 10 * n(10) + n(11)
        mi == 10 * n(12) + n(13)
        sec == 10 * n(14) + n(15)
    IN  /\ Len(st) = 16
        /\ \A i \in (1..8) \cup (10..15) : st[i] \in 48..57
        /\ st[9] = 84 /\ st[16] = 90
        /\ mo \in 1..12 /\ d \in 1..DaysIn(y, mo)
        /\ h \in 0..23 /\ mi \in 0..59 /\ sec \in 0..59
        /\ DayNumber(y, mo, d) = t.day
        /\ 3600 * h + 60 * mi + sec = t.sod

\* C10: buildFilename returns sanitizeFileName(name), "_", the ID as it
\* is, "_", the UTC second of the last modification as YYYYMMDDThhmmssZ,
\* and ".json"; summaries with the same name, ID and UTC second get the
\* same file name.
C10_FilenameFormat ==
    fPc = "done" =>
        LET pre == sanitizeFileName(fA.Name) \o <<95>> \o fA.ID \o <<95>>
            n   == Len(pre)
        IN  /\ Len(fOutA) = n + 21
            /\ SubSeq(fOutA, 1, n) = pre
            /\ StampIs(SubSeq(fOutA, n + 1, n + 16), fA.LastModifiedOn)
            /\ SubSeq(fOutA, n + 17, n + 21) = <<46, 106, 115, 111, 110>>
            /\ (/\ fA.LastModifiedOn.day = fB.LastModifiedOn.day
                /\ fA.LastModifiedOn.sod = fB.LastModifiedOn.sod) => fOutA = fOutB
            /\ (/\ fA.Name = <<77, 121, 32, 66, 117, 100, 103, 101, 116>>
                /\ fA.ID = <<97, 98, 99, 49, 50, 51>>
                /\ fA.LastModifiedOn.day = 20222 /\ fA.LastModifiedOn.sod = 55845)
               => fOutA = <<77, 121, 95, 66, 117, 100, 103, 101, 116, 95, 97, 98,
                            99, 49, 50, 51, 95, 50, 48, 50, 53, 48, 53, 49, 52,
                            84, 49, 53, 51, 48, 52, 53, 90, 46, 106, 115, 111, 110>>

\* C10 witness: the budget of TestBuildFilename, decoded once in the zone
\* +02:00 with 999999999 ns and once in the zone -05:00 with 0 ns, gets
\* "My_Budget_abc123_20250514T153045Z.json" both times.
C10_Witness ==
    /\ fPc = "done"
    /\ fA.Name = <<77, 121, 32, 66, 117, 100, 103, 101, 116>>
    /\ fA.ID = <<97, 98, 99, 49, 50, 51>>
    /\ fA.LastModifiedOn = [day |-> 20222, sod |-> 55845, nsec |-> 999999999, off |-> 7200]
    /\ fB.LastModifiedOn = [day |-> 20222, sod |-> 55845, nsec |-> 0, off |-> -18000]
    /\ fOutA = <<77, 121, 95, 66, 117, 100, 103, 101, 116, 95, 97, 98, 99, 49, 50,
                 51, 95, 50, 48, 50, 53, 48, 53, 49, 52, 84, 49, 53, 51, 48, 52,
                 53, 90, 46, 106, 115, 111, 110>>
    /\ fOutB = fOutA

(***************************************************************************)
(* The requests of a run (specification Spec)                              *)
(***************************************************************************)
\* base_url + "/" + id of the k-th listed budget.
DetailURL(k) == cfg.BaseURL \o <<47>> \o budgets[k].ID

\* A URL with an ASCII control byte: no request can be made for it.
HasControlByte(url) == \E i \in 1..Len(url) : url[i] < 32 \/ url[i] = 127

\* The detail URLs of the first n listed budgets, in list order.
AllDetailURLs(n) == [k \in 1..n |-> DetailURL(k)]

\* The same without the URLs no request can be made for.
RECURSIVE ValidDetailURLs(_)
ValidDetailURLs(n) ==
    IF n = 0 THEN <<>>
    ELSE IF HasControlByte(DetailURL(n)) THEN ValidDetailURLs(n - 1)
    ELSE Append(ValidDetailURLs(n - 1), DetailURL(n))

\* C12 as stated: whenever run has returned, the requests issued were the
\* list request and then one detail request per listed budget, in list
\* order.
C12_OneListThenOnePerBudget ==
    ret.done => requests = <<cfg.BaseURL>> \o AllDetailURLs(Len(budgets))

\* C12 as amended: at every moment of a run the requests issued so far are,
\* in this order, the list request (once the list phase was entered, and
\* unless the base URL has a control byte) and the detail requests to
\* base_url + "/" + id of the budgets whose iteration is over, in list
\* order, one each, except for those whose URL has a control byte, which
\* get none and fail at the download stage; every budget whose request has
\* been issued has also finished its fetch and write; a failed budget gets
\* no second request; and a run that fails before or in the list phase
\* issues no detail request.
C12_RequestsInOrderAtMostOnce ==
    /\ idx = Len(saved)
    /\ idx <= Len(budgets)
    /\ pc \in {"main", "mkdir", "list"} => requests = <<>>
    /\ ~listGet.done => requests = <<>>
    /\ listGet.done =>
          /\ requests = (IF HasControlByte(cfg.BaseURL) THEN <<>> ELSE <<cfg.BaseURL>>)
                            \o ValidDetailURLs(idx)
          /\ (HasControlByte(cfg.BaseURL) => ret.done /\ ret.at = "list")
    /\ \A k \in 1..idx :
          HasControlByte(DetailURL(k)) =>
              saved[k].stage = "download budget" /\ saved[k].wrote = "none"
    /\ (ret.done /\ ret.at # "loop") => idx = 0 /\ Len(requests) <= 1
    /\ (ret.done /\ ret.at = "loop") => idx = Len(budgets)

\* C12 witness: the first budget's download fails on a response, the second
\* budget is still requested, and nothing was requested twice.
C12_Witness ==
    /\ pc = "exit"
    /\ budgets = <<bX, bA>>
    /\ saved[1].stage = "download budget"
    /\ saved[2].stage = ""
    /\ requests = <<cfg.BaseURL, <<117, 47, 120>>, <<117, 47, 49>>>>

(***************************************************************************)
(* Where a run writes (specification Spec)                                 *)
(***************************************************************************)
HasSeparator(name) == \E i \in 1..Len(name) : name[i] = 47

\* C13: for every budget the run has written a file for (the write
\* succeeded, or failed after creating the file) the name buildFilename
\* gave has no path separator and the file is a direct child of the output
\* directory, and so is every file that appeared in or changed since the
\* start of the run.
C13_WritesStayInOutputDir ==
    /\ \A k \in 1..Len(saved) :
          saved[k].wrote \in {"ok", "write"} =>
              /\ ~HasSeparator(buildFilename(budgets[k]))
              /\ Dir(saved[k].file) = cfg.OutputDir
    /\ \A p \in DOMAIN files :
          (p \notin DOMAIN files0 \/ files[p] # files0[p]) => Dir(p) = cfg.OutputDir

(***************************************************************************)
(* What a run prints (specification Spec)                                  *)
(***************************************************************************)
\* C14: when verbose mode is disabled, standard error stays empty in every
\* phase of the run, whatever failed for a budget, and at the exit it holds
\* nothing when the status is 0 and exactly one line when the status is 1:
\* main's fatal error, for the missing token or for the error run returned.
C14_QuietUnlessFatal ==
    ~cfg.Verbose =>
        /\ exitCode # 1 => stderr = <<>>
        /\ exitCode = 1 =>
              /\ pc = "exit"
              /\ stderr = IF cfg.Token = <<>>
                          THEN <<"Error: bearer token must be provided">>
                          ELSE <<"Error:">>
              /\ cfg.Token # <<>> => ret.done /\ ret.err # NilErr

\* C14 witness: a run without verbose mode in which one budget's download
\* failed and another's write failed ends with status 0 and has printed
\* nothing.
C14_Witness ==
    /\ ~cfg.Verbose
    /\ cfg.Logger = "discard"
    /\ pc = "exit"
    /\ exitCode = 0
    /\ Len(saved) = 2
    /\ saved[1].stage = "download budget"
    /\ saved[2].stage = "write file"
    /\ stderr = <<>>

(***************************************************************************)
(* Properties of downloadAndSave (specification SpecDownload)              *)
(***************************************************************************)
\* "o/X_x_20250101T000000Z.json", the file of TestDownloadAndSave's budget.
PathOfX == <<111, 47, 88, 95, 120, 95, 50, 48, 50, 53, 48, 49, 48, 49, 84, 48,
             48, 48, 48, 48, 48, 90, 46, 106, 115, 111, 110>>

\* The directory after the call differs from the one before it at most in
\* the file at path p.
OnlyTouched(p) ==
    /\ DOMAIN dRes.wrote.fs \subseteq (DOMAIN dFs) \cup {p}
    /\ \A q \in DOMAIN dFs : q \in DOMAIN dRes.wrote.fs
                             /\ (q # p => dRes.wrote.fs[q] = dFs[q])

\* C11: when downloadAndSave returns no error, the file at
\* Join(OutputDir, buildFilename(b)) holds exactly the bytes of the response
\* body, whatever the file held before, no other file changed, and the
\* returned path is that path; when it returns an error the returned path is
\* empty and the error's outermost wrap names the stage: "download budget"
\* exactly when httpGet failed, and then writeFile was not called and the
\* directory is as it was, "write file" otherwise.
C11_SaveVerbatimOrStageError ==
    dPc = "done" =>
        LET path == Join(dCfg.OutputDir, buildFilename(dB))
        IN  /\ dB = bX => path = PathOfX
            /\ dRes.err = NilErr =>
                  /\ dRes.path = path
                  /\ path \in DOMAIN dRes.wrote.fs
                  /\ dRes.wrote.fs[path] = dDo.body.bytes
                  /\ OnlyTouched(path)
                  /\ dRes.get.err = NilErr
                  /\ ~dDo.transport /\ dDo.status = StatusOK /\ dDo.readAt < 0
            /\ dRes.err # NilErr =>
                  /\ dRes.path = <<>>
                  /\ dRes.err[1].kind \in {"download budget", "write file"}
                  /\ dRes.err[1].kind = "download budget" <=> dRes.get.err # NilErr
                  /\ dRes.err[1].kind = "download budget" =>
                        /\ dRes.wrote.res = "none"
                        /\ dRes.wrote.fs = dFs
                        /\ SubSeq(dRes.err, 2, Len(dRes.err)) = dRes.get.err
                  /\ dRes.err[1].kind = "write file" =>
                        /\ dRes.wrote.res \in {"open", "write"}
                        /\ SubSeq(dRes.err, 2, Len(dRes.err)) = dRes.wrote.err

\* C11 witness: the budget of TestDownloadAndSave is saved over the file an
\* earlier run left: the file now holds "{}", and the path is returned.
C11_Witness ==
    /\ dPc = "done"
    /\ dB = bX
    /\ dFs = OldFiles
    /\ dFs[PathOfX] = <<111, 108, 100>>
    /\ dDo.body.bytes = <<123, 125>>
    /\ dRes.err = NilErr
    /\ dRes.path = PathOfX
    /\ dRes.wrote.fs[PathOfX] = <<123, 125>>

=============================================================================
